---- MODULE Spec2Model ----
(***************************************************************************)
(* Fleet-maintenance backend: the relational tables and the HTTP handlers  *)
(* that write them (routes/job_cards.py, routes/parts.py,                  *)
(* routes/assets.py, routes/maintenance.py), and the seeding of the        *)
(* database (init_db.py).  Each handler is one action: it runs against a   *)
(* session copy of the tables, and only db.session.commit() makes the      *)
(* session's writes durable.  The tables below are the durable state.      *)
(* Where two requests overlap, a request is two actions: its reads, then   *)
(* its writes and commit.                                                   *)
(***************************************************************************)
EXTENDS Integers, Sequences, FiniteSets, TLC

VARIABLES
    users,          \* table users:         Seq of [role]
    assets,         \* table assets:        Seq of [registration, status]
    workshops,      \* table workshops:     Seq of [name, capacity]
    job_cards,      \* table job_cards:     Seq of [job_number, asset_id, workshop_id, status,
                    \*                              labor_cost, parts_cost, actual_cost,
                    \*                              actual_start, actual_end, completed_at]
    labor_entries,  \* table labor_entries: Seq of [job_card_id, technician_id, hours_worked,
                    \*                              hourly_rate, total_cost]
    parts_used,     \* table parts_used:    Seq of [job_card_id, part_id, quantity, unit_cost, total_cost]
    parts,          \* table parts:         Seq of [part_number, quantity_in_stock, reorder_level, unit_cost]
    audit_logs,     \* table audit_logs:    Seq of [user_id, action, entity_type, entity_id,
                    \*                              timestamp]
    maintenance_schedules,  \* table maintenance_schedules: Seq of [asset_id, next_due_date,
                    \*                              is_active]
    last,           \* the last HTTP exchange: the request and the response it got
    now,            \* datetime.utcnow(): the server's clock
    sessions,       \* the requests in flight: what each worker's session has read
    db_initialized, \* init_db._db_initialized
    db_init_lock,   \* init_db._db_init_lock: the thread holding it, 0 when free
    callers         \* the threads calling ensure_database_initialized: where each is

vars == <<users, assets, workshops, job_cards, labor_entries, parts_used, parts, audit_logs,
          maintenance_schedules, last, now, sessions, db_initialized, db_init_lock, callers>>

(***************************************************************************)
(* Bounds of the model.  A row's id is its index in its table.  The        *)
(* unique registration and part number bound assets and parts.  MaxAudit   *)
(* bounds the audit trail, MaxTrail the longer trail of a job card that     *)
(* goes through several statuses, MaxClock the clock, MaxSchedules the     *)
(* maintenance schedules, MaxRace the rows that racing requests add.        *)
(***************************************************************************)
MaxLabor == 1
MaxPartsUsed == 2
MaxAudit == 3
MaxStock == 2
MaxJobs == 2
MaxWorkshops == 4
MaxClock == 2
MaxTrail == 5
MaxSchedules == 2
MaxRace == 2

(***************************************************************************)
(* Python values as the handlers see them.  A Numeric column loads as      *)
(* decimal.Decimal (or None), a JSON number is an int, and                  *)
(* float(..) * float(..) is a float.  Decimal and float do not add: the     *)
(* interpreter raises TypeError.                                            *)
(***************************************************************************)
None == [k |-> "none", v |-> 0]
Absent == [k |-> "absent", v |-> 0]     \* the key is not in the request's JSON
NoField == "<absent>"                   \* the key "status" is not in the request's JSON
PyInt(n) == [k |-> "int", v |-> n]
PyFloat(n) == [k |-> "float", v |-> n]
PyDec(n) == [k |-> "dec", v |-> n]

\* bool(x): None and every zero are falsy
Truthy(x) == x.k \notin {"none", "absent"} /\ x.v # 0

\* `x or 0`
PyOr0(x) == IF Truthy(x) THEN x ELSE PyInt(0)

\* a + b raises TypeError
PyAddRaises(a, b) == {a.k, b.k} = {"dec", "float"} \/ "none" \in {a.k, b.k}

\* a + b
PyAdd(a, b) ==
    [k |-> IF "float" \in {a.k, b.k} THEN "float"
           ELSE IF "dec" \in {a.k, b.k} THEN "dec" ELSE "int",
     v |-> a.v + b.v]

\* float(a) * float(b)
PyFloatMul(a, b) == PyFloat(a.v * b.v)

\* a != b (None differs from every number; numbers compare by value)
PyNe(a, b) == (a.k = "none") # (b.k = "none") \/ a.v # b.v

\* what a Numeric(10, 2) column holds once the value is written: NULL or a decimal
ToNumeric(x) == IF x.k = "none" THEN None ELSE PyDec(x.v)

(***************************************************************************)
(* The seeded rows: users 1..4 and workshops 1..3.                          *)
(***************************************************************************)
default_users == <<[role |-> "admin"], [role |-> "fleet_manager"],
                   [role |-> "supervisor"], [role |-> "technician"]>>

default_workshops == <<[name |-> "North Workshop", capacity |-> 10],
                       [name |-> "Central Workshop", capacity |-> 8],
                       [name |-> "South Workshop", capacity |-> 6]>>

UserIds == DOMAIN default_users

\* the users whose requests the model sends: the admin and the technician
Requesters == {1, 4}

(***************************************************************************)
(* The tables as one value, and the request-free exchange.                  *)
(***************************************************************************)
DB == [assets |-> assets, workshops |-> workshops, job_cards |-> job_cards,
       labor_entries |-> labor_entries, parts_used |-> parts_used, parts |-> parts,
       audit_logs |-> audit_logs, maintenance_schedules |-> maintenance_schedules]

NoRequest == [op |-> "none", user |-> 0, id |-> 0, code |-> 0, error |-> "", data |-> <<>>,
              body |-> <<>>]

\* a DateTime column that is NULL; the clock starts after it
NoTime == 0

\* the workers that serve requests side by side, and the threads that call
\* ensure_database_initialized
Workers == {1, 2}
Threads == {1, 2, 3}

\* a worker with no request in flight
NoSession == [op |-> "none"]

\* the tables no seeding has filled
EmptyTables ==
    /\ assets = <<>>
    /\ job_cards = <<>>
    /\ labor_entries = <<>>
    /\ parts_used = <<>>
    /\ parts = <<>>
    /\ audit_logs = <<>>
    /\ maintenance_schedules = <<>>
    /\ last = NoRequest
    /\ now = 1
    /\ sessions = [w \in Workers |-> NoSession]
    /\ db_init_lock = 0
    /\ callers = [t \in Threads |-> "idle"]

\* the application serving requests: the database is seeded
Init ==
    /\ EmptyTables
    /\ users = default_users
    /\ workshops = default_workshops
    /\ db_initialized = TRUE

\* Model.query.get(id)
Exists(table, id) == id \in DOMAIN table

(***************************************************************************)
(* A handler's run is a trail of session states, one per write, each        *)
(* marked as a commit or not.  The durable tables after the first n steps   *)
(* are those of the last commit among them; everything after it is rolled   *)
(* back when the request ends (or the connection drops).                    *)
(***************************************************************************)
Step(d, isCommit) == [db |-> d, commit |-> isCommit]

\* every write durable as soon as it is flushed (autocommit)
CommittedEager(pre, steps, n) == IF n = 0 THEN pre ELSE steps[n].db

Committed(pre, steps, n) ==
    LET cs == {i \in 1..n : steps[i].commit}
    IN  IF cs = {} THEN pre
        ELSE steps[CHOOSE i \in cs : \A k \in cs : k <= i].db

\* what a handler does on one request: the steps of its run, whether the run
\* ends in an unhandled exception after them, and the response it returns
\* when the run completes
Plan(steps, raised, code, error) ==
    [steps |-> steps, raised |-> raised, code |-> code, error |-> error]

\* a response returned before any write
Reject(code, error) == Plan(<<>>, FALSE, code, error)

\* the run of plan p cut after n steps (n < Len(p.steps): the request failed
\* there; app.errorhandler(Exception) answers 500)
Run(pre, p, n) ==
    LET done == n = Len(p.steps) /\ ~p.raised
    IN  [db |-> Committed(pre, p.steps, n),
         code |-> IF done THEN p.code ELSE 500,
         error |-> IF done THEN p.error ELSE "Internal server error"]

\* db.session.commit() of the handler's transaction
Store(d) ==
    /\ assets' = d.assets
    /\ workshops' = d.workshops
    /\ job_cards' = d.job_cards
    /\ labor_entries' = d.labor_entries
    /\ parts_used' = d.parts_used
    /\ parts' = d.parts
    /\ audit_logs' = d.audit_logs
    /\ maintenance_schedules' = d.maintenance_schedules

\* what a request handler never touches: the users, and the seeding's flag and lock
Serving == UNCHANGED <<users, db_initialized, db_init_lock, callers>>

Respond(op, user, id, data, r) ==
    /\ Store(r.db)
    /\ last' = [op |-> op, user |-> user, id |-> id, code |-> r.code,
                error |-> r.error, data |-> data, body |-> <<>>]
    /\ now' = now
    /\ sessions' = sessions
    /\ Serving

\* log_audit / AuditLog(...) + db.session.add
AuditRow(user, action, entity_type, entity_id) ==
    [user_id |-> user, action |-> action, entity_type |-> entity_type, entity_id |-> entity_id,
     timestamp |-> now]


\* data.get(key, default)
Get(x, default) == IF x = Absent THEN default ELSE x

\* the model's bounds on the tables, for an audit trail of at most maxAudit rows
Within(d, maxAudit) ==
    /\ Len(d.labor_entries) <= MaxLabor
    /\ Len(d.parts_used) <= MaxPartsUsed
    /\ Len(d.audit_logs) <= maxAudit
    /\ Len(d.job_cards) <= MaxJobs
    /\ Len(d.workshops) <= MaxWorkshops
    /\ Len(d.maintenance_schedules) <= MaxSchedules
    /\ \A p \in DOMAIN d.parts : d.parts[p].quantity_in_stock <= MaxStock

Fits(d) == Within(d, MaxAudit)

\* one request, its handler's plan run to its end
Handle(op, user, id, data, p) ==
    LET r == Run(DB, p, Len(p.steps))
    IN  /\ Fits(r.db)
        /\ Respond(op, user, id, data, r)

\* the same, where the audit trail may grow to MaxTrail rows
HandleTrail(op, user, id, data, p) ==
    LET r == Run(DB, p, Len(p.steps))
    IN  /\ Within(r.db, MaxTrail)
        /\ Respond(op, user, id, data, r)

\* one request that fails part-way (the database connection drops, the worker
\* is killed): the plan is cut after n of its steps
Fail(op, user, id, data, p) ==
    \E n \in 0..(Len(p.steps) - 1) :
        LET r == Run(DB, p, n)
        IN  /\ Fits(r.db)
            /\ Respond(op, user, id, data, r)

(***************************************************************************)
(* routes/assets.py                                                         *)
(***************************************************************************)
Registrations == {"AB12CDE"}

\* the audit keeps one row per entity: the row of its latest action
log_audit_latest(d, user_id, action, entity_type, entity_id) ==
    [d EXCEPT !.audit_logs =
        SelectSeq(@, LAMBDA row : ~(row.entity_type = entity_type /\ row.entity_id = entity_id))
        \o <<AuditRow(user_id, action, entity_type, entity_id)>>]

\* log_audit: a new AuditLog row added to the session
log_audit(d, user_id, action, entity_type, entity_id) ==
    [d EXCEPT !.audit_logs = Append(@, AuditRow(user_id, action, entity_type, entity_id))]

\* the registration check skips the disposed assets
RegistrationTakenByActive(d, registration) ==
    \E a \in DOMAIN d.assets :
        d.assets[a].registration = registration /\ d.assets[a].status # "disposed"

\* Asset.query.filter_by(registration=data['registration']).first()
RegistrationTaken(d, registration) ==
    \E a \in DOMAIN d.assets : d.assets[a].registration = registration

CreateAssetPlan(d, user, data) ==
    IF users[user].role \notin {"admin", "fleet_manager"}
    THEN Reject(403, "Insufficient permissions")
    ELSE IF data.registration = ""
    THEN Reject(400, "registration is required")
    ELSE IF RegistrationTaken(d, data.registration)
    THEN Reject(409, "Registration already exists")
    ELSE LET d1 == [d EXCEPT !.assets =
                        Append(@, [registration |-> data.registration, status |-> "active"])]
             d2 == log_audit(d1, user, "create", "asset", Len(d1.assets))
         IN  Plan(<<Step(d1, FALSE), Step(d1, TRUE), Step(d2, FALSE), Step(d2, TRUE)>>,
                  FALSE, 201, "")

create_asset ==
    \E user \in Requesters, reg \in Registrations :
        LET data == [registration |-> reg]
        IN  Handle("create_asset", user, 0, data, CreateAssetPlan(DB, user, data))

\* the registrations of the requests when the fleet has more than one asset
FleetRegistrations == {"AB12CDE", "XY34ZZZ"}

create_asset_fleet ==
    \E user \in Requesters, reg \in FleetRegistrations \cup {""} :
        LET data == [registration |-> reg]
        IN  Handle("create_asset", user, 0, data, CreateAssetPlan(DB, user, data))

\* the loop over updatable_fields: `status` is the one the model carries
AssetChanges(asset, data) ==
    IF data.status # NoField /\ asset.status # data.status THEN {"status"} ELSE {}

UpdateAssetPlan(d, user, asset_id, data) ==
    IF users[user].role \notin {"admin", "fleet_manager"}
    THEN Reject(403, "Insufficient permissions")
    ELSE IF ~Exists(d.assets, asset_id)
    THEN Reject(404, "Asset not found")
    ELSE LET d1 == [d EXCEPT !.assets[asset_id].status = data.status]
             d2 == log_audit(d1, user, "update", "asset", asset_id)
         IN  IF AssetChanges(d.assets[asset_id], data) = {}
             THEN Plan(<<>>, FALSE, 200, "")
             ELSE Plan(<<Step(d1, FALSE), Step(d1, TRUE), Step(d2, FALSE), Step(d2, TRUE)>>,
                       FALSE, 200, "")

\* the row is removed from the table
DeleteAssetWriteHard(d, asset_id) ==
    [d EXCEPT !.assets = SubSeq(@, 1, asset_id - 1) \o SubSeq(@, asset_id + 1, Len(@))]

\* asset.status = 'disposed'
DeleteAssetWrite(d, asset_id) ==
    [d EXCEPT !.assets[asset_id].status = "disposed"]

DeleteAssetPlan(d, user, asset_id) ==
    IF users[user].role # "admin"
    THEN Reject(403, "Insufficient permissions")
    ELSE IF ~Exists(d.assets, asset_id)
    THEN Reject(404, "Asset not found")
    ELSE LET d1 == DeleteAssetWrite(d, asset_id)
             d2 == log_audit(d1, user, "delete", "asset", asset_id)
         IN  Plan(<<Step(d1, FALSE), Step(d1, TRUE), Step(d2, FALSE), Step(d2, TRUE)>>,
                  FALSE, 200, "")

\* the JSON body sent to update_asset: the status a new asset already has
UpdateAssetPayloads == {[status |-> "active"]}

update_asset ==
    \E user \in Requesters, asset_id \in 1..(Len(assets) + 1), data \in UpdateAssetPayloads :
        Handle("update_asset", user, asset_id, data, UpdateAssetPlan(DB, user, asset_id, data))

delete_asset ==
    \E user \in Requesters, asset_id \in 1..(Len(assets) + 1) :
        Handle("delete_asset", user, asset_id, <<>>, DeleteAssetPlan(DB, user, asset_id))

\* requests that fail before their handler returns
fail_create_asset ==
    \E user \in Requesters, reg \in FleetRegistrations :
        LET data == [registration |-> reg]
        IN  Fail("create_asset", user, 0, data, CreateAssetPlan(DB, user, data))

fail_update_asset ==
    \E user \in Requesters, asset_id \in DOMAIN assets, data \in UpdateAssetPayloads :
        Fail("update_asset", user, asset_id, data, UpdateAssetPlan(DB, user, asset_id, data))

fail_delete_asset ==
    \E user \in Requesters, asset_id \in DOMAIN assets :
        Fail("delete_asset", user, asset_id, <<>>, DeleteAssetPlan(DB, user, asset_id))

(***************************************************************************)
(* routes/workshops.py                                                      *)
(***************************************************************************)
\* any logged-in user may create a workshop
MayCreateWorkshopAnyone(user) == user \in DOMAIN users

\* if user.role != 'admin': 403
MayCreateWorkshop(user) == users[user].role = "admin"

CreateWorkshopPlan(d, user, data) ==
    IF ~MayCreateWorkshop(user)
    THEN Reject(403, "Insufficient permissions")
    ELSE IF data.name = ""
    THEN Reject(400, "name is required")
    ELSE IF data.location = ""
    THEN Reject(400, "location is required")
    ELSE LET workshop == [name |-> data.name,
                          capacity |-> Get(data.capacity, PyInt(5)).v]
             d1 == [d EXCEPT !.workshops = Append(@, workshop)]
         IN  Plan(<<Step(d1, FALSE), Step(d1, TRUE)>>, FALSE, 201, "")

\* the JSON bodies sent to create_workshop
WorkshopPayloads ==
    {[name |-> "East Workshop", location |-> loc, capacity |-> cap] :
        loc \in {"", "Depot"}, cap \in {Absent, PyInt(0)}}

create_workshop ==
    \E user \in Requesters, data \in WorkshopPayloads :
        Handle("create_workshop", user, 0, data, CreateWorkshopPlan(DB, user, data))

(***************************************************************************)
(* routes/parts.py                                                          *)
(***************************************************************************)
PartNumbers == {"PN-1"}
PartRoles == {"admin", "fleet_manager", "supervisor"}

CreatePartPlan(d, user, data) ==
    IF users[user].role \notin PartRoles
    THEN Reject(403, "Insufficient permissions")
    ELSE IF data.part_number = ""
    THEN Reject(400, "part_number and name are required")
    ELSE IF \E p \in DOMAIN d.parts : d.parts[p].part_number = data.part_number
    THEN Reject(409, "Part number already exists")
    ELSE LET part == [part_number |-> data.part_number,
                      quantity_in_stock |-> Get(data.quantity_in_stock, PyInt(0)).v,
                      reorder_level |-> Get(data.reorder_level, PyInt(5)).v,
                      unit_cost |-> ToNumeric(Get(data.unit_cost, None))]
             d1 == [d EXCEPT !.parts = Append(@, part)]
         IN  Plan(<<Step(d1, FALSE), Step(d1, TRUE)>>, FALSE, 201, "")

\* for field in updatable_fields: if field in data: setattr(part, field, data[field])
UpdatePartFields(part, data) ==
    [part EXCEPT
        !.quantity_in_stock = IF data.quantity_in_stock = Absent THEN @
                              ELSE data.quantity_in_stock.v,
        !.reorder_level = IF data.reorder_level = Absent THEN @ ELSE data.reorder_level.v,
        !.unit_cost = IF data.unit_cost = Absent THEN @ ELSE ToNumeric(data.unit_cost)]

\* the update also reprices the rows that used the part
UpdatePartWriteReprice(d, part_id, data) ==
    [d EXCEPT !.parts[part_id] = UpdatePartFields(@, data),
              !.parts_used = [i \in DOMAIN @ |->
                  IF @[i].part_id = part_id /\ data.unit_cost # Absent
                  THEN [@[i] EXCEPT !.unit_cost = ToNumeric(data.unit_cost)]
                  ELSE @[i]]]

UpdatePartWrite(d, part_id, data) ==
    [d EXCEPT !.parts[part_id] = UpdatePartFields(@, data)]

UpdatePartPlan(d, user, part_id, data) ==
    IF users[user].role \notin PartRoles
    THEN Reject(403, "Insufficient permissions")
    ELSE IF ~Exists(d.parts, part_id)
    THEN Reject(404, "Part not found")
    ELSE LET d1 == UpdatePartWrite(d, part_id, data)
         IN  Plan(<<Step(d1, FALSE), Step(d1, TRUE)>>, FALSE, 200, "")

AdjustStockPlan(d, user, part_id, data) ==
    IF users[user].role \notin PartRoles
    THEN Reject(403, "Insufficient permissions")
    ELSE IF ~Exists(d.parts, part_id)
    THEN Reject(404, "Part not found")
    ELSE IF data.adjustment = Absent
    THEN Reject(400, "adjustment value required")
    ELSE LET new_quantity == d.parts[part_id].quantity_in_stock + data.adjustment.v
             d1 == [d EXCEPT !.parts[part_id].quantity_in_stock = new_quantity]
         IN  IF new_quantity < 0
             THEN Reject(400, "Resulting quantity cannot be negative")
             ELSE Plan(<<Step(d1, FALSE), Step(d1, TRUE)>>, FALSE, 200, "")

\* the ids a request names: those of the stored rows and one that is not there
Ids(table) == 1..(Len(table) + 1)

\* the JSON bodies sent to update_part: a price change, a stock overwrite
UpdatePartPayloads ==
    {[quantity_in_stock |-> Absent, reorder_level |-> Absent, unit_cost |-> PyInt(9)],
     [quantity_in_stock |-> PyInt(-1), reorder_level |-> Absent, unit_cost |-> Absent]}

create_part ==
    \E user \in Requesters, pn \in PartNumbers,
       qty \in {PyInt(2)}, uc \in {Absent} :
        LET data == [part_number |-> pn, quantity_in_stock |-> qty,
                     reorder_level |-> Absent, unit_cost |-> uc]
        IN  Handle("create_part", user, 0, data, CreatePartPlan(DB, user, data))

update_part ==
    \E user \in Requesters, part_id \in Ids(parts),
       data \in UpdatePartPayloads :
        Handle("update_part", user, part_id, data, UpdatePartPlan(DB, user, part_id, data))

adjust_stock ==
    \E user \in Requesters, part_id \in Ids(parts), adj \in {PyInt(-1), PyInt(1)} :
        LET data == [adjustment |-> adj]
        IN  Handle("adjust_stock", user, part_id, data, AdjustStockPlan(DB, user, part_id, data))

\* a read: the response carries a body, and no table changes
Read(op, user, id, code, error, body) ==
    /\ last' = [op |-> op, user |-> user, id |-> id, code |-> code, error |-> error,
                data |-> <<>>, body |-> body]
    /\ UNCHANGED <<assets, workshops, job_cards, labor_entries, parts_used, parts,
                   audit_logs, maintenance_schedules, now, sessions>>
    /\ Serving

\* a read that takes query arguments
ReadQuery(op, user, id, data, code, error, body) ==
    /\ last' = [op |-> op, user |-> user, id |-> id, code |-> code, error |-> error,
                data |-> data, body |-> body]
    /\ UNCHANGED <<assets, workshops, job_cards, labor_entries, parts_used, parts,
                   audit_logs, maintenance_schedules, now, sessions>>
    /\ Serving

\* the flag is raised only below the reorder level
NeedsReorderBelow(part) == part.quantity_in_stock < part.reorder_level

\* 'needs_reorder': self.quantity_in_stock <= self.reorder_level
NeedsReorder(part) == part.quantity_in_stock <= part.reorder_level

\* Part.to_dict: the read representation of part part_id
PartToDict(d, part_id) ==
    [id |-> part_id,
     part_number |-> d.parts[part_id].part_number,
     quantity_in_stock |-> d.parts[part_id].quantity_in_stock,
     reorder_level |-> d.parts[part_id].reorder_level,
     needs_reorder |-> NeedsReorder(d.parts[part_id])]

\* Part.query.filter(Part.quantity_in_stock <= Part.reorder_level).all()
LowStockQuery(d) ==
    {p \in DOMAIN d.parts : d.parts[p].quantity_in_stock <= d.parts[p].reorder_level}

\* the part numbers of the requests when the store has more than one part
StockPartNumbers == {"PN-1", "PN-2"}

\* create_part, the request giving the part's reorder level
create_part_reorder ==
    \E user \in Requesters, pn \in StockPartNumbers :
        LET data == [part_number |-> pn, quantity_in_stock |-> PyInt(1),
                     reorder_level |-> PyInt(1), unit_cost |-> Absent]
        IN  Handle("create_part", user, 0, data, CreatePartPlan(DB, user, data))

get_part ==
    \E user \in Requesters, part_id \in Ids(parts) :
        IF ~Exists(parts, part_id)
        THEN Read("get_part", user, part_id, 404, "Part not found", <<>>)
        ELSE Read("get_part", user, part_id, 200, "", PartToDict(DB, part_id))

get_low_stock ==
    \E user \in Requesters :
        Read("get_low_stock", user, 0, 200, "", {PartToDict(DB, p) : p \in LowStockQuery(DB)})

(***************************************************************************)
(* routes/job_cards.py                                                      *)
(***************************************************************************)
JobRoles == {"admin", "fleet_manager", "supervisor"}

\* the number comes from a sequence: a request in flight holds the number it drew
generate_job_number_sequence(d) ==
    Len(d.job_cards) + 1
    + Cardinality({w \in DOMAIN sessions : sessions[w].op = "create_job_card"})

\* generate_job_number: the numeric part, (id of the last job card) + 1
generate_job_number(d) == IF d.job_cards = <<>> THEN 1 ELSE Len(d.job_cards) + 1

\* the Numeric columns of job_cards as the database holds them after a commit
Persist(d) ==
    [d EXCEPT !.job_cards =
        [j \in DOMAIN @ |->
            [@[j] EXCEPT !.labor_cost = ToNumeric(@), !.parts_cost = ToNumeric(@),
                         !.actual_cost = ToNumeric(@)]]]

\* the table has no unique index on job_number
JobNumberTakenNever(d, job_number) == FALSE

\* job_number = db.Column(.., unique=True): the INSERT of a number that a
\* stored job card has fails
JobNumberTaken(d, job_number) ==
    \E j \in DOMAIN d.job_cards : d.job_cards[j].job_number = job_number

\* create_job_card against the tables d, the job number being the one that
\* generate_job_number returned when the handler called it
CreateJobCardAs(d, user, data, job_number) ==
    IF users[user].role \notin JobRoles
    THEN Reject(403, "Insufficient permissions")
    ELSE IF ~Truthy(data.asset_id) \/ ~Truthy(data.workshop_id)
    THEN Reject(400, "asset_id, workshop_id, and title are required")
    ELSE IF ~Exists(d.assets, data.asset_id.v)
    THEN Reject(404, "Asset not found")
    ELSE LET job == [job_number |-> job_number,
                     asset_id |-> data.asset_id.v,
                     workshop_id |-> data.workshop_id.v,
                     status |-> "pending",
                     labor_cost |-> None, parts_cost |-> None, actual_cost |-> None,
                     actual_start |-> NoTime, actual_end |-> NoTime, completed_at |-> NoTime]
             d1 == [d EXCEPT !.job_cards = Append(@, job)]
             d2 == [d1 EXCEPT !.audit_logs =
                        Append(@, AuditRow(user, "create", "job_card", Len(d1.job_cards)))]
         IN  IF ~Exists(d.workshops, job.workshop_id)
             THEN \* the INSERT violates the foreign key workshops.id
                  Plan(<<Step(d1, FALSE)>>, TRUE, 201, "")
             ELSE IF JobNumberTaken(d, job_number)
             THEN \* the INSERT violates the unique index on job_number
                  Plan(<<Step(d1, FALSE)>>, TRUE, 201, "")
             ELSE Plan(<<Step(d1, FALSE), Step(d1, TRUE), Step(d2, FALSE), Step(d2, TRUE)>>,
                       FALSE, 201, "")

\* the handler run without another request between its reads and its commit
CreateJobCardPlan(d, user, data) == CreateJobCardAs(d, user, data, generate_job_number(d))

\* the loop over updatable_fields: the fields whose submitted value differs
JobChanges(job, data) ==
    {f \in {"labor_cost", "parts_cost", "actual_cost"} :
        data[f] # Absent /\ PyNe(job[f], data[f])}
    \cup (IF data.status # NoField /\ job.status # data.status THEN {"status"} ELSE {})

UpdateJobFields(job, data) ==
    LET ch == JobChanges(job, data)
    IN  [job EXCEPT
            !.status = IF "status" \in ch THEN data.status ELSE @,
            !.labor_cost = IF "labor_cost" \in ch THEN data.labor_cost ELSE @,
            !.parts_cost = IF "parts_cost" \in ch THEN data.parts_cost ELSE @,
            !.actual_cost = IF "actual_cost" \in ch THEN data.actual_cost ELSE @]

\* the stamps are written whenever they are set, whatever the job's status was
StampStatusAlways(job, data, t) ==
    IF data.status = "in_progress" THEN [job EXCEPT !.actual_start = t]
    ELSE IF data.status = "completed" THEN [job EXCEPT !.actual_end = t, !.completed_at = t]
    ELSE job

\* if 'status' in data: the first in_progress stamps actual_start, the first
\* completed stamps actual_end and completed_at
StampStatus(job, data, t) ==
    IF data.status = NoField THEN job
    ELSE IF data.status = "in_progress" /\ job.actual_start = NoTime
    THEN [job EXCEPT !.actual_start = t]
    ELSE IF data.status = "completed" /\ job.actual_end = NoTime
    THEN [job EXCEPT !.actual_end = t, !.completed_at = t]
    ELSE job

UpdateJobCardPlan(d, user, job_id, data) ==
    IF ~Exists(d.job_cards, job_id)
    THEN Reject(404, "Job card not found")
    ELSE LET d1 == [d EXCEPT !.job_cards[job_id] = StampStatus(UpdateJobFields(@, data), data, now)]
             d2 == Persist(d1)
             d3 == [d2 EXCEPT !.audit_logs =
                        Append(@, AuditRow(user, "update", "job_card", job_id))]
         IN  IF JobChanges(d.job_cards[job_id], data) = {}
             THEN Plan(<<>>, FALSE, 200, "")
             ELSE Plan(<<Step(d1, FALSE), Step(d2, TRUE), Step(d3, FALSE), Step(d3, TRUE)>>,
                       FALSE, 200, "")

\* SELECT SUM(total_cost) FROM <rows> WHERE job_card_id = job_id: NULL over no rows
RECURSIVE SumRows(_, _)
SumRows(rows, job_id) ==
    IF rows = <<>> THEN 0
    ELSE (IF Head(rows).job_card_id = job_id THEN Head(rows).total_cost.v ELSE 0)
         + SumRows(Tail(rows), job_id)

SumTotalCost(rows, job_id) ==
    IF \E i \in DOMAIN rows : rows[i].job_card_id = job_id
    THEN PyDec(SumRows(rows, job_id))
    ELSE None

\* the query behind line 330 / 378: the session autoflushes first, so the rows
\* it sums include the one just added
QueryTotal(sessionRows, job_id) == PyOr0(SumTotalCost(sessionRows, job_id))

\* job.actual_cost = (job.labor_cost or 0) + (job.parts_cost or 0)
ActualCostRaises(job) == PyAddRaises(PyOr0(job.labor_cost), PyOr0(job.parts_cost))
ActualCostLaborOnly(job) == PyOr0(job.labor_cost)     \* the parts term forgotten
ActualCost(job) == PyAdd(PyOr0(job.labor_cost), PyOr0(job.parts_cost))

\* the row as the table holds it (Numeric columns)
LaborRow(labor) ==
    [labor EXCEPT !.hours_worked = ToNumeric(@), !.hourly_rate = ToNumeric(@),
                  !.total_cost = ToNumeric(@)]

AddLaborEntryPlan(d, user, job_id, data) ==
    IF ~Exists(d.job_cards, job_id)
    THEN Reject(404, "Job card not found")
    ELSE IF ~Truthy(data.technician_id) \/ ~Truthy(data.hours_worked)
    THEN Reject(400, "technician_id and hours_worked are required")
    ELSE LET rate == Get(data.hourly_rate, PyInt(0))
             labor == [job_card_id |-> job_id,
                       technician_id |-> data.technician_id.v,
                       hours_worked |-> data.hours_worked,
                       hourly_rate |-> rate,
                       total_cost |-> PyFloatMul(data.hours_worked, rate)]
             d1 == [d EXCEPT !.labor_entries = Append(@, LaborRow(labor))]
             total == QueryTotal(d1.labor_entries, job_id)
             d2 == [d1 EXCEPT !.job_cards[job_id].labor_cost = PyAdd(total, labor.total_cost)]
             d3 == [d2 EXCEPT !.job_cards[job_id].actual_cost = ActualCost(d2.job_cards[job_id])]
         IN  IF ~Exists(users, labor.technician_id)
             THEN \* the autoflushed INSERT violates the foreign key users.id
                  Plan(<<>>, TRUE, 201, "")
             ELSE IF PyAddRaises(total, labor.total_cost)
             THEN Plan(<<Step(d1, FALSE)>>, TRUE, 201, "")
             ELSE IF ActualCostRaises(d2.job_cards[job_id])
             THEN Plan(<<Step(d1, FALSE), Step(d2, FALSE)>>, TRUE, 201, "")
             ELSE Plan(<<Step(d1, FALSE), Step(d2, FALSE), Step(d3, FALSE),
                         Step(Persist(d3), TRUE)>>, FALSE, 201, "")

\* the stock check, off by one
InsufficientStockOffByOne(part, quantity) == part.quantity_in_stock + 1 < quantity.v

\* if part.quantity_in_stock < data['quantity']
InsufficientStock(part, quantity) == part.quantity_in_stock < quantity.v

PartsUsedRow(row) == [row EXCEPT !.total_cost = ToNumeric(@)]

AddPartsUsedPlan(d, user, job_id, data) ==
    IF ~Exists(d.job_cards, job_id)
    THEN Reject(404, "Job card not found")
    ELSE IF ~Truthy(data.part_id) \/ ~Truthy(data.quantity)
    THEN Reject(400, "part_id and quantity are required")
    ELSE IF ~Exists(d.parts, data.part_id.v)
    THEN Reject(404, "Part not found")
    ELSE IF InsufficientStock(d.parts[data.part_id.v], data.quantity)
    THEN Reject(400, "Insufficient stock")
    ELSE LET part_id == data.part_id.v
             part == d.parts[part_id]
             row == [job_card_id |-> job_id,
                     part_id |-> part_id,
                     quantity |-> data.quantity.v,
                     unit_cost |-> part.unit_cost,
                     total_cost |-> PyFloatMul(data.quantity, PyOr0(part.unit_cost))]
             d1 == [d EXCEPT !.parts_used = Append(@, PartsUsedRow(row))]
             d2 == [d1 EXCEPT !.parts[part_id].quantity_in_stock = @ - data.quantity.v]
             total == QueryTotal(d2.parts_used, job_id)
             d3 == [d2 EXCEPT !.job_cards[job_id].parts_cost = PyAdd(total, row.total_cost)]
             d4 == [d3 EXCEPT !.job_cards[job_id].actual_cost = ActualCost(d3.job_cards[job_id])]
         IN  IF PyAddRaises(total, row.total_cost)
             THEN Plan(<<Step(d1, FALSE), Step(d2, FALSE)>>, TRUE, 201, "")
             ELSE IF ActualCostRaises(d3.job_cards[job_id])
             THEN Plan(<<Step(d1, FALSE), Step(d2, FALSE), Step(d3, FALSE)>>, TRUE, 201, "")
             ELSE Plan(<<Step(d1, FALSE), Step(d2, FALSE), Step(d3, FALSE), Step(d4, FALSE),
                         Step(Persist(d4), TRUE)>>, FALSE, 201, "")

\* the JSON bodies sent to update_job_card: a status change, and direct writes
\* of the cost fields
UpdateJobPayloads ==
    {[status |-> "completed", labor_cost |-> Absent, parts_cost |-> Absent, actual_cost |-> Absent],
     [status |-> NoField, labor_cost |-> PyInt(7), parts_cost |-> PyInt(7), actual_cost |-> Absent],
     [status |-> NoField, labor_cost |-> Absent, parts_cost |-> Absent, actual_cost |-> PyInt(7)]}

\* the JSON bodies sent to add_labor_entry: two hours by the technician, with
\* no hourly_rate and at a rate of 50
LaborPayloads ==
    {[technician_id |-> PyInt(4), hours_worked |-> PyInt(2), hourly_rate |-> rate] :
        rate \in {Absent, PyInt(50)}}

\* the JSON bodies sent to add_parts_used
PartsUsedPayloads ==
    {[part_id |-> PyInt(p), quantity |-> PyInt(q)] : p \in Ids(parts), q \in {-1, 1}}

create_job_card ==
    \E user \in Requesters, asset_id \in {PyInt(1)}, workshop_id \in {PyInt(1), PyInt(4)} :
        LET data == [asset_id |-> asset_id, workshop_id |-> workshop_id]
        IN  Handle("create_job_card", user, 0, data, CreateJobCardPlan(DB, user, data))

\* a job card opened by the admin in the first workshop
create_job_card_admin ==
    \E user \in {1} :
        LET data == [asset_id |-> PyInt(1), workshop_id |-> PyInt(1)]
        IN  Handle("create_job_card", user, 0, data, CreateJobCardPlan(DB, user, data))

update_job_card ==
    \E user \in Requesters, job_id \in Ids(job_cards), data \in UpdateJobPayloads :
        Handle("update_job_card", user, job_id, data,
                   UpdateJobCardPlan(DB, user, job_id, data))

add_labor_entry ==
    \E user \in Requesters, job_id \in Ids(job_cards), data \in LaborPayloads :
        Handle("add_labor_entry", user, job_id, data,
                   AddLaborEntryPlan(DB, user, job_id, data))

add_parts_used ==
    \E user \in Requesters, job_id \in Ids(job_cards), data \in PartsUsedPayloads :
        Handle("add_parts_used", user, job_id, data,
                   AddPartsUsedPlan(DB, user, job_id, data))

\* requests that fail before their handler returns
fail_add_labor_entry ==
    \E user \in Requesters, job_id \in Ids(job_cards), data \in LaborPayloads :
        Fail("add_labor_entry", user, job_id, data, AddLaborEntryPlan(DB, user, job_id, data))

fail_add_parts_used ==
    \E user \in Requesters, job_id \in Ids(job_cards), data \in PartsUsedPayloads :
        Fail("add_parts_used", user, job_id, data, AddPartsUsedPlan(DB, user, job_id, data))

\* the JSON bodies that name a status: two work states in and out of order,
\* and a word that is no status
StatusPayloads ==
    {[status |-> st, labor_cost |-> Absent, parts_cost |-> Absent, actual_cost |-> Absent] :
        st \in {"in_progress", "completed", "pending", "archived"}}

\* create_job_card, the request asking for a status of its own
create_job_card_status ==
    \E user \in {1}, st \in {"completed"} :
        LET data == [asset_id |-> PyInt(1), workshop_id |-> PyInt(1), status |-> st]
        IN  HandleTrail("create_job_card", user, 0, data, CreateJobCardPlan(DB, user, data))

\* update_job_card, the request naming a status
update_job_card_status ==
    \E user \in {1}, job_id \in DOMAIN job_cards, data \in StatusPayloads :
        HandleTrail("update_job_card", user, job_id, data,
                    UpdateJobCardPlan(DB, user, job_id, data))

\* time passes
tick ==
    /\ now < MaxClock
    /\ now' = now + 1
    /\ UNCHANGED <<assets, workshops, job_cards, labor_entries, parts_used, parts,
                   audit_logs, maintenance_schedules, last, sessions>>
    /\ Serving

fail_create_job_card ==
    \E user \in Requesters, asset_id \in {PyInt(1)}, workshop_id \in {PyInt(1)} :
        LET data == [asset_id |-> asset_id, workshop_id |-> workshop_id]
        IN  Fail("create_job_card", user, 0, data, CreateJobCardPlan(DB, user, data))

Next ==
    \/ create_asset
    \/ create_part
    \/ update_part
    \/ adjust_stock
    \/ create_job_card
    \/ update_job_card
    \/ add_labor_entry
    \/ add_parts_used

Spec == Init /\ [][Next]_vars

\* the same requests, any add_labor_entry / add_parts_used of which may fail part-way
NextFail == Next \/ fail_add_labor_entry \/ fail_add_parts_used

SpecFail == Init /\ [][NextFail]_vars

\* the fleet register with its audit trail: every request may also fail part-way
NextFleet ==
    \/ create_asset_fleet
    \/ update_asset
    \/ delete_asset
    \/ fail_create_asset
    \/ fail_update_asset
    \/ fail_delete_asset

SpecFleet == Init /\ [][NextFleet]_vars

\* the life of a job card: its status and its timestamps
NextLifecycle ==
    \/ create_asset
    \/ create_job_card_status
    \/ update_job_card_status
    \/ add_labor_entry
    \/ tick

SpecLifecycle == Init /\ [][NextLifecycle]_vars

\* the parts store and its read representations
NextStore ==
    \/ create_part_reorder
    \/ update_part
    \/ adjust_stock
    \/ get_part
    \/ get_low_stock

SpecStore == Init /\ [][NextStore]_vars

\* the workshops and the job cards opened in them, with the audit trail
NextWorkshops ==
    \/ create_workshop
    \/ create_asset
    \/ create_job_card
    \/ fail_create_job_card

SpecWorkshops == Init /\ [][NextWorkshops]_vars

(***************************************************************************)
(* Properties.                                                              *)
(***************************************************************************)
Tables == <<users, assets, workshops, job_cards, labor_entries, parts_used, parts, audit_logs,
            maintenance_schedules>>

\* a cost with an unset value counted as 0
Amount(x) == x.v

\* the last request was an add_labor_entry that passed the handler's checks:
\* the job exists, technician_id and hours_worked are given
LaborAccepted ==
    /\ last.op = "add_labor_entry"
    /\ last.code \notin {400, 404}

\* the last request was an add_parts_used that passed the handler's checks: the
\* job and the part exist, part_id and quantity are given, the stock suffices
PartsAccepted ==
    /\ last.op = "add_parts_used"
    /\ last.code \notin {400, 404}

\* C1: after every successful add_labor_entry or add_parts_used on a job card,
\* its actual_cost equals its labor_cost plus its parts_cost (unset counted as
\* 0), whatever preceded it, update_job_card's direct writes included.
C1_ActualCostIsSum ==
    (last.op \in {"add_labor_entry", "add_parts_used"} /\ last.code = 201) =>
        LET J == job_cards[last.id]
        IN  /\ J.actual_cost # None
            /\ Amount(J.actual_cost) = Amount(J.labor_cost) + Amount(J.parts_cost)

\* C1 witness: an add_labor_entry succeeded on a job whose parts_cost an
\* update_job_card had written directly; actual_cost was recomputed to it.
C1_Witness ==
    /\ last.op = "add_labor_entry" /\ last.code = 201
    /\ \E i \in DOMAIN audit_logs :
          audit_logs[i].action = "update" /\ audit_logs[i].entity_id = last.id
    /\ Amount(job_cards[last.id].parts_cost) = 7
    /\ Amount(job_cards[last.id].actual_cost) = 7

\* C2: an add_labor_entry that passes the handler's checks inserts exactly one
\* LaborEntry with total_cost = hours_worked x hourly_rate (rate defaulting to
\* 0) and sets the job's labor_cost to the sum of total_cost over the job's
\* rows, the new one counted once; 2 hours at 50 on a job without entries
\* give labor_cost = 100 and actual_cost = 100.
C2_AddLaborEntry ==
    [][LaborAccepted' =>
        LET J == job_cards'[last'.id]
            data == last'.data
            cost == data.hours_worked.v * Get(data.hourly_rate, PyInt(0)).v
        IN  /\ last'.code = 201
            /\ Len(labor_entries') = Len(labor_entries) + 1
            /\ SubSeq(labor_entries', 1, Len(labor_entries)) = labor_entries
            /\ Amount(labor_entries'[Len(labor_entries')].total_cost) = cost
            /\ Amount(J.labor_cost) = SumRows(labor_entries', last'.id)
            /\ (SumRows(labor_entries, last'.id) = 0 /\ Amount(J.parts_cost) = 0 /\ cost = 100)
                  => (Amount(J.labor_cost) = 100 /\ Amount(J.actual_cost) = 100)
    ]_vars

\* C3: an add_parts_used that passes the handler's checks inserts exactly one
\* PartsUsed row with total_cost = quantity x the part's unit_cost, lowers the
\* part's quantity_in_stock by quantity, and sets the job's parts_cost to the
\* sum of total_cost over the job's rows, the new one counted once.
C3_AddPartsUsed ==
    [][PartsAccepted' =>
        LET J == job_cards'[last'.id]
            part_id == last'.data.part_id.v
            quantity == last'.data.quantity.v
        IN  /\ last'.code = 201
            /\ Len(parts_used') = Len(parts_used) + 1
            /\ SubSeq(parts_used', 1, Len(parts_used)) = parts_used
            /\ Amount(parts_used'[Len(parts_used')].total_cost)
                  = quantity * Amount(parts[part_id].unit_cost)
            /\ parts'[part_id].quantity_in_stock = parts[part_id].quantity_in_stock - quantity
            /\ Amount(J.parts_cost) = SumRows(parts_used', last'.id)
    ]_vars

\* C4: in every reachable state each job card's labor_cost (unset counted as 0)
\* equals the sum of total_cost of its LaborEntry rows and its parts_cost the
\* sum of total_cost of its PartsUsed rows.
C4_CostsMatchRows ==
    \A j \in DOMAIN job_cards :
        /\ Amount(job_cards[j].labor_cost) = SumRows(labor_entries, j)
        /\ Amount(job_cards[j].parts_cost) = SumRows(parts_used, j)

\* C5: every part's quantity_in_stock is >= 0 in every reachable state.
C5_StockNonNegative ==
    \A p \in DOMAIN parts : parts[p].quantity_in_stock >= 0

\* C6: add_parts_used with a quantity above the part's quantity_in_stock
\* answers "Insufficient stock" and changes no table: no row is inserted, the
\* stock and the job's parts_cost and actual_cost stay as they were.
C6_InsufficientStockNoMutation ==
    [][(/\ last'.op = "add_parts_used"
        /\ last'.id \in DOMAIN job_cards
        /\ Truthy(last'.data.part_id) /\ Truthy(last'.data.quantity)
        /\ last'.data.part_id.v \in DOMAIN parts
        /\ last'.data.quantity.v > parts[last'.data.part_id.v].quantity_in_stock)
       => (/\ last'.code = 400
           /\ last'.error = "Insufficient stock"
           /\ UNCHANGED Tables)
    ]_vars

\* C6 witness: a request for one unit of a part with none left was refused.
C6_Witness ==
    /\ last.op = "add_parts_used"
    /\ last.error = "Insufficient stock"
    /\ last.data.quantity.v = 1
    /\ parts[last.data.part_id.v].quantity_in_stock = 0

\* C7: add_labor_entry and add_parts_used are atomic: a request that does not
\* answer 201, wherever it failed, leaves every table as it was, and one that
\* answers 201 leaves the whole result: the row, the stock decrement, and the
\* job's aggregate with actual_cost = labor_cost + parts_cost.
C7_ReconciliationAtomic ==
    [][(last'.op \in {"add_labor_entry", "add_parts_used"}) =>
        IF last'.code # 201 THEN UNCHANGED Tables
        ELSE LET J == job_cards'[last'.id]
             IN  /\ Amount(J.actual_cost) = Amount(J.labor_cost) + Amount(J.parts_cost)
                 /\ IF last'.op = "add_labor_entry"
                    THEN /\ Len(labor_entries') = Len(labor_entries) + 1
                         /\ J.labor_cost # None
                         /\ UNCHANGED <<parts, parts_used>>
                    ELSE /\ Len(parts_used') = Len(parts_used) + 1
                         /\ J.parts_cost # None
                         /\ parts'[last'.data.part_id.v].quantity_in_stock
                              = parts[last'.data.part_id.v].quantity_in_stock
                                - last'.data.quantity.v
                         /\ UNCHANGED labor_entries
    ]_vars

\* C7 witness: an add_parts_used that every check accepted, for a part without
\* a price, failed before its commit.
C7_Witness ==
    /\ last.op = "add_parts_used"
    /\ last.code = 500
    /\ last.id \in DOMAIN job_cards
    /\ last.data.part_id.v \in DOMAIN parts
    /\ parts[last.data.part_id.v].unit_cost = None
    /\ parts[last.data.part_id.v].quantity_in_stock >= last.data.quantity.v

\* C8: a job-card mutation (create_job_card, update_job_card, add_labor_entry,
\* add_parts_used) requested by a user whose role is not admin, fleet_manager
\* or supervisor answers 403 and changes no table.
C8_JobMutationNeedsRole ==
    [][(/\ last'.op \in {"create_job_card", "update_job_card",
                         "add_labor_entry", "add_parts_used"}
        /\ (last'.op # "create_job_card" => last'.id \in DOMAIN job_cards)
        /\ users[last'.user].role \notin {"admin", "fleet_manager", "supervisor"})
       => (last'.code = 403 /\ UNCHANGED Tables)
    ]_vars

\* C9: a stored part's quantity_in_stock changes only through add_parts_used
\* (lowered by the new row's quantity) or adjust_stock.
C9_StockChangesOnlyByUseOrAdjust ==
    [][\A p \in DOMAIN parts :
        parts'[p].quantity_in_stock # parts[p].quantity_in_stock =>
            \/ last'.op = "adjust_stock" /\ last'.id = p
            \/ /\ last'.op = "add_parts_used"
               /\ last'.data.part_id.v = p
               /\ Len(parts_used') = Len(parts_used) + 1
               /\ parts'[p].quantity_in_stock
                    = parts[p].quantity_in_stock - parts_used'[Len(parts_used')].quantity
    ]_vars

\* C10: a PartsUsed row's unit_cost is a snapshot: an update_part, a change of
\* the part's unit_cost included, leaves every stored row's unit_cost and
\* total_cost and every job's parts_cost and actual_cost as they were.
C10_UnitCostSnapshot ==
    [][last'.op = "update_part" =>
        /\ Len(parts_used') = Len(parts_used)
        /\ \A i \in DOMAIN parts_used :
              /\ parts_used'[i].unit_cost = parts_used[i].unit_cost
              /\ parts_used'[i].total_cost = parts_used[i].total_cost
        /\ \A j \in DOMAIN job_cards :
              /\ job_cards'[j].parts_cost = job_cards[j].parts_cost
              /\ job_cards'[j].actual_cost = job_cards[j].actual_cost
    ]_vars

\* C10 witness: the price of a part was changed after a row had used it; the
\* row keeps the unit_cost it was created with.
C10_Witness ==
    /\ last.op = "update_part" /\ last.code = 200
    /\ last.data.unit_cost # Absent
    /\ \E i \in DOMAIN parts_used :
          /\ parts_used[i].part_id = last.id
          /\ parts_used[i].unit_cost # parts[last.id].unit_cost

\* C11: a business mutation and its AuditLog row are atomic: whenever a
\* create_asset, update_asset, delete_asset, create_job_card or update_job_card
\* request, completed or failed part-way, leaves a change in assets or
\* job_cards, it also leaves exactly one new audit row for that entity.
C11_MutationAuditedAtomically ==
    [][(/\ last'.op \in {"create_asset", "update_asset", "delete_asset",
                         "create_job_card", "update_job_card"}
        /\ (assets' # assets \/ job_cards' # job_cards))
       => (/\ Len(audit_logs') = Len(audit_logs) + 1
           /\ audit_logs'[Len(audit_logs')].entity_type
                = (IF assets' # assets THEN "asset" ELSE "job_card"))
    ]_vars

\* C12: every successful create_asset, update_asset, delete_asset,
\* create_job_card and update_job_card appends exactly one AuditLog row, naming
\* the acting user, the action tag, the entity type and the entity id; an
\* accepted update whose submitted values equal the stored ones included.
C12_OneAuditRowPerMutation ==
    [][(/\ last'.op \in {"create_asset", "update_asset", "delete_asset",
                         "create_job_card", "update_job_card"}
        /\ last'.code \in {200, 201})
       => LET op == last'.op
              onAsset == op \in {"create_asset", "update_asset", "delete_asset"}
              tag == IF op \in {"create_asset", "create_job_card"} THEN "create"
                     ELSE IF op = "delete_asset" THEN "delete" ELSE "update"
              entity_id == IF op = "create_asset" THEN Len(assets')
                           ELSE IF op = "create_job_card" THEN Len(job_cards')
                           ELSE last'.id
          IN  audit_logs' = Append(audit_logs,
                                   AuditRow(last'.user, tag,
                                            IF onAsset THEN "asset" ELSE "job_card",
                                            entity_id))
    ]_vars

\* how far along its life a job card of the given status is (0: not a status)
StatusRank(st) ==
    CASE st = "pending" -> 1
      [] st = "assigned" -> 2
      [] st \in {"in_progress", "on_hold"} -> 3
      [] st \in {"completed", "cancelled"} -> 4
      [] OTHER -> 0

\* C13: a job card's status only moves forward: a created job card is stored
\* as pending whatever the request says, no request moves a stored job to an
\* earlier work state, and a completed or cancelled job keeps its status.
C13_StatusMovesForward ==
    [][\A j \in DOMAIN job_cards' :
        IF j \in DOMAIN job_cards
        THEN LET old == job_cards[j].status
                 new == job_cards'[j].status
             IN  (StatusRank(old) > 0 /\ StatusRank(new) > 0) =>
                     /\ StatusRank(new) >= StatusRank(old)
                     /\ old \in {"completed", "cancelled"} => new = old
        ELSE job_cards'[j].status = "pending"
    ]_vars

\* C14: completion is stamped once: every job card stored as completed has
\* actual_end and completed_at set, the update_job_card that first completes
\* it sets both to the time of the request, and once set neither is changed by
\* any later request, a job that leaves completed and re-enters it included.
C14_CompletionStampedOnce ==
    [][\A j \in DOMAIN job_cards' :
        LET new == job_cards'[j]
        IN  /\ new.status = "completed" =>
                  (new.actual_end # NoTime /\ new.completed_at # NoTime)
            /\ j \in DOMAIN job_cards =>
                  LET old == job_cards[j]
                  IN  /\ old.actual_end # NoTime => new.actual_end = old.actual_end
                      /\ old.completed_at # NoTime => new.completed_at = old.completed_at
                      /\ (new.status = "completed" /\ old.actual_end = NoTime)
                            => (new.actual_end = now /\ new.completed_at = now)
    ]_vars

\* C14 witness: a job card completed at time 1 left that status and was moved
\* back to completed at time 2; its stamps are those of time 1.
C14_Witness ==
    /\ audit_logs # <<>>
    /\ LET row == audit_logs[Len(audit_logs)]
       IN  /\ row.action = "update" /\ row.entity_type = "job_card"
           /\ row.timestamp = 2
           /\ job_cards[row.entity_id].status = "completed"
           /\ job_cards[row.entity_id].actual_end = 1
           /\ job_cards[row.entity_id].completed_at = 1

\* C15: in every reachable state each job card's status is one of pending,
\* assigned, in_progress, on_hold, completed, cancelled.
C15_StatusInDomain ==
    \A j \in DOMAIN job_cards :
        job_cards[j].status \in {"pending", "assigned", "in_progress", "on_hold",
                                 "completed", "cancelled"}

\* C16: asset registrations stay unique: a create_asset by an authorised user
\* with a registration that a stored asset holds, a disposed one included,
\* answers 409 and changes no table; no two stored assets share a
\* registration, and a created asset gets a fresh id (the stored ones keep
\* theirs).
C16_RegistrationUnique ==
    [][/\ (/\ last'.op = "create_asset"
           /\ users[last'.user].role \in {"admin", "fleet_manager"}
           /\ \E a \in DOMAIN assets : assets[a].registration = last'.data.registration)
          => (last'.code = 409 /\ UNCHANGED Tables)
       /\ \A a, b \in DOMAIN assets' :
              a # b => assets'[a].registration # assets'[b].registration
       /\ \A a \in DOMAIN assets :
              a \in DOMAIN assets' /\ assets'[a].registration = assets[a].registration
    ]_vars

\* C16 witness: the registration of a disposed asset was refused, next to
\* another asset created under its own id.
C16_Witness ==
    /\ last.op = "create_asset" /\ last.code = 409
    /\ Len(assets) = 2
    /\ \E a \in DOMAIN assets :
          assets[a].registration = last.data.registration /\ assets[a].status = "disposed"

\* C17: assets are never hard-deleted: no request removes an Asset row, so the
\* set of asset ids only grows, and a delete_asset by an admin on a stored
\* asset keeps the row and, when it is answered 200, leaves its status disposed.
C17_AssetsNeverRemoved ==
    [][/\ DOMAIN assets \subseteq DOMAIN assets'
       /\ (/\ last'.op = "delete_asset"
           /\ users[last'.user].role = "admin"
           /\ last'.id \in DOMAIN assets)
          => /\ last'.code \in {200, 500}
             /\ Len(assets') = Len(assets)
             /\ assets'[last'.id].registration = assets[last'.id].registration
             /\ last'.code = 200 => assets'[last'.id].status = "disposed"
    ]_vars

\* C17 witness: the admin deleted the first of two assets; both rows are there.
C17_Witness ==
    /\ last.op = "delete_asset" /\ last.code = 200 /\ last.id = 1
    /\ Len(assets) = 2
    /\ assets[1].status = "disposed"

\* C18: a create_workshop requested by a user whose role is not admin answers
\* 403 and inserts no Workshop row (no table changes).
C18_CreateWorkshopAdminOnly ==
    [][(last'.op = "create_workshop" /\ users[last'.user].role # "admin")
       => (/\ last'.code = 403
           /\ workshops' = workshops
           /\ UNCHANGED Tables)
    ]_vars

\* C18 witness: the technician's complete request was refused, and the
\* workshops are the seeded three.
C18_Witness ==
    /\ last.op = "create_workshop" /\ last.code = 403
    /\ users[last.user].role = "technician"
    /\ last.data.name # "" /\ last.data.location # ""
    /\ Len(workshops) = 3

\* C19: validate-then-write: a request answered with a validation, not-found,
\* conflict, permission or insufficient-stock error (400, 403, 404, 409)
\* changes no table, and a request that refers to a row that is not there (a
\* create_job_card with an unknown workshop_id, an add_labor_entry with an
\* unknown technician_id) is answered with such an error.
C19_ValidateThenWrite ==
    [][/\ last'.code \in {400, 403, 404, 409} => UNCHANGED Tables
       /\ (/\ last'.op = "create_job_card"
           /\ users[last'.user].role \in {"admin", "fleet_manager", "supervisor"}
           /\ last'.data.workshop_id.v \notin DOMAIN workshops)
          => (last'.code \in {400, 404} /\ UNCHANGED Tables)
       /\ (/\ last'.op = "add_labor_entry"
           /\ last'.data.technician_id.v \notin DOMAIN users)
          => (last'.code \in {400, 404} /\ UNCHANGED Tables)
    ]_vars

\* C20: a part's read representation has needs_reorder = true exactly when
\* quantity_in_stock <= reorder_level (a stock equal to the reorder level is
\* flagged, one unit more is not), and get_low_stock returns exactly the parts
\* whose needs_reorder is true.
C20_NeedsReorder ==
    /\ (last.op = "get_part" /\ last.code = 200) =>
          /\ last.body.quantity_in_stock = parts[last.id].quantity_in_stock
          /\ last.body.needs_reorder
                = (parts[last.id].quantity_in_stock <= parts[last.id].reorder_level)
    /\ last.op = "get_low_stock" =>
          /\ \A b \in last.body : b.needs_reorder
          /\ {b.id : b \in last.body}
                = {p \in DOMAIN parts : parts[p].quantity_in_stock <= parts[p].reorder_level}

\* C20 witness: get_low_stock returned part 1, whose stock equals its reorder
\* level, and not part 2, whose stock an adjust_stock of +1 raised above it.
C20_Witness ==
    /\ last.op = "get_low_stock"
    /\ {b.id : b \in last.body} = {1}
    /\ Len(parts) = 2
    /\ parts[1].quantity_in_stock = parts[1].reorder_level
    /\ parts[2].quantity_in_stock = parts[2].reorder_level + 1

(***************************************************************************)
(* routes/maintenance.py.  A date is a day number; today is the clock's.   *)
(***************************************************************************)
CreateMaintenanceSchedulePlan(d, user, data) ==
    IF users[user].role \notin {"admin", "fleet_manager"}
    THEN Reject(403, "Insufficient permissions")
    ELSE IF ~Truthy(data.asset_id)
    THEN Reject(400, "asset_id and name are required")
    ELSE IF ~Truthy(Get(data.frequency_days, None))
    THEN Reject(400, "Either frequency_days or frequency_mileage must be specified")
    ELSE IF ~Exists(d.assets, data.asset_id.v)
    THEN Reject(404, "Asset not found")
    ELSE LET schedule == [asset_id |-> data.asset_id.v,
                          next_due_date |-> IF Truthy(Get(data.next_due_date, None))
                                            THEN data.next_due_date.v ELSE NoTime,
                          is_active |-> TRUE]
             d1 == [d EXCEPT !.maintenance_schedules = Append(@, schedule)]
         IN  Plan(<<Step(d1, FALSE), Step(d1, TRUE)>>, FALSE, 201, "")

\* the loop over updatable_fields: next_due_date and is_active are the ones
\* the model carries
UpdateScheduleFields(schedule, data) ==
    [schedule EXCEPT
        !.next_due_date = IF data.next_due_date = Absent THEN @
                          ELSE IF Truthy(data.next_due_date) THEN data.next_due_date.v
                          ELSE NoTime,
        !.is_active = IF data.is_active = NoField THEN @ ELSE data.is_active = "true"]

UpdateMaintenanceSchedulePlan(d, user, schedule_id, data) ==
    IF users[user].role \notin {"admin", "fleet_manager"}
    THEN Reject(403, "Insufficient permissions")
    ELSE IF ~Exists(d.maintenance_schedules, schedule_id)
    THEN Reject(404, "Schedule not found")
    ELSE LET d1 == [d EXCEPT !.maintenance_schedules[schedule_id] =
                        UpdateScheduleFields(@, data)]
         IN  Plan(<<Step(d1, FALSE), Step(d1, TRUE)>>, FALSE, 200, "")

DeleteMaintenanceSchedulePlan(d, user, schedule_id) ==
    IF users[user].role \notin {"admin", "fleet_manager"}
    THEN Reject(403, "Insufficient permissions")
    ELSE IF ~Exists(d.maintenance_schedules, schedule_id)
    THEN Reject(404, "Schedule not found")
    ELSE LET d1 == [d EXCEPT !.maintenance_schedules[schedule_id].is_active = FALSE]
         IN  Plan(<<Step(d1, FALSE), Step(d1, TRUE)>>, FALSE, 200, "")

\* the query keeps the deactivated schedules
DueSoonQueryAnyActivity(d, future_date) ==
    {s \in DOMAIN d.maintenance_schedules :
        /\ d.maintenance_schedules[s].next_due_date # NoTime
        /\ d.maintenance_schedules[s].next_due_date <= future_date}

\* MaintenanceSchedule.query.filter(is_active == True, next_due_date <= future_date):
\* a NULL next_due_date compares as unknown and the row is left out
DueSoonQuery(d, future_date) ==
    {s \in DOMAIN d.maintenance_schedules :
        /\ d.maintenance_schedules[s].is_active = TRUE
        /\ d.maintenance_schedules[s].next_due_date # NoTime
        /\ d.maintenance_schedules[s].next_due_date <= future_date}

\* one element of get_due_soon's results: to_dict and the two computed keys
DueSoonEntry(d, s, today) ==
    LET days_until == d.maintenance_schedules[s].next_due_date - today
    IN  [id |-> s,
         next_due_date |-> d.maintenance_schedules[s].next_due_date,
         is_active |-> d.maintenance_schedules[s].is_active,
         days_until_due |-> days_until,
         is_overdue |-> days_until < 0]

\* get_due_soon's results; the order among schedules due the same day is the
\* database's, so the results are taken as a set
DueSoonResults(d, days, today) ==
    {DueSoonEntry(d, s, today) : s \in DueSoonQuery(d, today + days)}

\* the due dates the requests name
DueDates == {1, 3}

\* the JSON bodies sent to create_maintenance_schedule
SchedulePayloads ==
    {[asset_id |-> PyInt(1), frequency_days |-> PyInt(30), next_due_date |-> due] :
        due \in {Absent} \cup {PyInt(t) : t \in DueDates}}
    \cup {[asset_id |-> PyInt(1), frequency_days |-> Absent, next_due_date |-> PyInt(1)]}

\* the JSON bodies sent to update_maintenance_schedule: a new due date, a
\* reactivation
ScheduleUpdates ==
    {[next_due_date |-> PyInt(3), is_active |-> NoField],
     [next_due_date |-> Absent, is_active |-> "true"]}

\* request.args.get('days', 30, type=int)
DaysArgs == {Absent, PyInt(-1), PyInt(0)}

create_maintenance_schedule ==
    \E user \in Requesters, data \in SchedulePayloads :
        Handle("create_maintenance_schedule", user, 0, data,
               CreateMaintenanceSchedulePlan(DB, user, data))

update_maintenance_schedule ==
    \E user \in Requesters, schedule_id \in Ids(maintenance_schedules), data \in ScheduleUpdates :
        Handle("update_maintenance_schedule", user, schedule_id, data,
               UpdateMaintenanceSchedulePlan(DB, user, schedule_id, data))

delete_maintenance_schedule ==
    \E user \in Requesters, schedule_id \in Ids(maintenance_schedules) :
        Handle("delete_maintenance_schedule", user, schedule_id, <<>>,
               DeleteMaintenanceSchedulePlan(DB, user, schedule_id))

get_due_soon ==
    \E user \in {1}, days \in DaysArgs :
        ReadQuery("get_due_soon", user, 0, [days |-> days], 200, "",
                  DueSoonResults(DB, Get(days, PyInt(30)).v, now))

\* the maintenance schedules and the due-soon report, as the days pass
NextMaintenance ==
    \/ create_asset
    \/ create_maintenance_schedule
    \/ update_maintenance_schedule
    \/ delete_maintenance_schedule
    \/ get_due_soon
    \/ tick

SpecMaintenance == Init /\ [][NextMaintenance]_vars

\* C21: get_due_soon(days) returns exactly the schedules that are active and
\* have a next_due_date on or before today + days (a schedule without a due
\* date, or one that is deactivated, is not among them), each with
\* days_until_due = next_due_date - today and is_overdue true exactly when
\* days_until_due < 0, and it changes no table.
C21_DueSoon ==
    [][(last'.op = "get_due_soon" /\ now' = now) =>
        LET days == IF last'.data.days = Absent THEN 30 ELSE last'.data.days.v
            due == {s \in DOMAIN maintenance_schedules :
                       /\ maintenance_schedules[s].is_active
                       /\ maintenance_schedules[s].next_due_date # NoTime
                       /\ maintenance_schedules[s].next_due_date <= now + days}
        IN  /\ last'.code = 200
            /\ {e.id : e \in last'.body} = due
            /\ Cardinality(last'.body) = Cardinality(due)
            /\ \A e \in last'.body :
                  /\ e.days_until_due = maintenance_schedules[e.id].next_due_date - now
                  /\ e.is_overdue = (e.days_until_due < 0)
            /\ UNCHANGED Tables
    ]_vars

\* C21 witness: the report lists a schedule that is one day overdue, while a
\* deactivated schedule that is due is stored and left out.
C21_Witness ==
    /\ last.op = "get_due_soon"
    /\ \E e \in last.body : e.is_overdue /\ e.days_until_due = -1
    /\ \E s \in DOMAIN maintenance_schedules :
          /\ ~maintenance_schedules[s].is_active
          /\ maintenance_schedules[s].next_due_date # NoTime
          /\ maintenance_schedules[s].next_due_date <= now
          /\ s \notin {e.id : e \in last.body}

(***************************************************************************)
(* routes/audit.py                                                          *)
(***************************************************************************)
\* AuditLog.to_dict of row i
AuditToDict(d, i) ==
    [id |-> i,
     user_id |-> d.audit_logs[i].user_id,
     action |-> d.audit_logs[i].action,
     entity_type |-> d.audit_logs[i].entity_type,
     entity_id |-> d.audit_logs[i].entity_id,
     timestamp |-> d.audit_logs[i].timestamp]

\* query.filter_by(entity_type=..) when the argument is given; page 1 of 50
\* holds every row of the model.  Rows of one timestamp come in the
\* database's order, so the page is taken as a set.
AuditLogsQuery(d, entity_type) ==
    {i \in DOMAIN d.audit_logs :
        entity_type = NoField \/ d.audit_logs[i].entity_type = entity_type}

\* AuditLog.query.filter_by(entity_type=entity_type, entity_id=entity_id)
EntityTrailQuery(d, entity_type, entity_id) ==
    {i \in DOMAIN d.audit_logs :
        d.audit_logs[i].entity_type = entity_type /\ d.audit_logs[i].entity_id = entity_id}

get_audit_logs ==
    \E user \in Requesters, entity_type \in {NoField, "asset"} :
        IF users[user].role \notin {"admin", "fleet_manager"}
        THEN ReadQuery("get_audit_logs", user, 0, [entity_type |-> entity_type],
                       403, "Insufficient permissions", <<>>)
        ELSE ReadQuery("get_audit_logs", user, 0, [entity_type |-> entity_type], 200, "",
                       [logs |-> {AuditToDict(DB, i) : i \in AuditLogsQuery(DB, entity_type)},
                        total |-> Cardinality(AuditLogsQuery(DB, entity_type))])

get_entity_audit_trail ==
    \E user \in Requesters, entity_id \in Ids(assets) :
        IF users[user].role \notin {"admin", "fleet_manager"}
        THEN ReadQuery("get_entity_audit_trail", user, entity_id, [entity_type |-> "asset"],
                       403, "Insufficient permissions", <<>>)
        ELSE ReadQuery("get_entity_audit_trail", user, entity_id, [entity_type |-> "asset"],
                       200, "",
                       {AuditToDict(DB, i) : i \in EntityTrailQuery(DB, "asset", entity_id)})

\* the audit trail: the handlers that write it and the two that read it
NextAudit ==
    \/ create_asset_fleet
    \/ update_asset
    \/ delete_asset
    \/ create_job_card
    \/ update_job_card
    \/ get_audit_logs
    \/ get_entity_audit_trail
    \/ tick

SpecAudit == Init /\ [][NextAudit]_vars

\* C22: the audit log is append-only: every step leaves each stored AuditLog
\* row in place with the fields it had, so the rows only grow in number; the
\* two audit reads change no table.
C22_AuditAppendOnly ==
    [][/\ Len(audit_logs') >= Len(audit_logs)
       /\ \A i \in DOMAIN audit_logs : audit_logs'[i] = audit_logs[i]
       /\ (last'.op \in {"get_audit_logs", "get_entity_audit_trail"} /\ last' # last)
              => UNCHANGED Tables
    ]_vars

\* C22 witness: the trail of an asset read back with its two rows, the create
\* and a later delete, the first row still as it was written.
C22_Witness ==
    /\ last.op = "get_entity_audit_trail" /\ last.code = 200
    /\ \E e1, e2 \in last.body :
          /\ e1.action = "create" /\ e2.action = "delete"
          /\ e1.id < e2.id /\ e1.timestamp < e2.timestamp
          /\ audit_logs[e1.id].action = "create"

(***************************************************************************)
(* routes/job_cards.py: get_job_card                                        *)
(***************************************************************************)
\* float(x) if x else None
ToJsonNumber(x) == IF Truthy(x) THEN PyFloat(x.v) ELSE None

\* LaborEntry.to_dict of row i
LaborToDict(d, i) ==
    [id |-> i,
     job_card_id |-> d.labor_entries[i].job_card_id,
     technician_id |-> d.labor_entries[i].technician_id,
     hours_worked |-> PyFloat(d.labor_entries[i].hours_worked.v),
     hourly_rate |-> ToJsonNumber(d.labor_entries[i].hourly_rate),
     total_cost |-> ToJsonNumber(d.labor_entries[i].total_cost)]

\* PartsUsed.to_dict of row i
PartsUsedToDict(d, i) ==
    [id |-> i,
     job_card_id |-> d.parts_used[i].job_card_id,
     part_id |-> d.parts_used[i].part_id,
     part_number |-> d.parts[d.parts_used[i].part_id].part_number,
     quantity |-> d.parts_used[i].quantity,
     unit_cost |-> ToJsonNumber(d.parts_used[i].unit_cost),
     total_cost |-> ToJsonNumber(d.parts_used[i].total_cost)]

\* the rows of a table that belong to job job_id, in the table's order
RowsOf(d, table, job_id) ==
    SelectSeq([i \in DOMAIN table |-> i], LAMBDA i : table[i].job_card_id = job_id)

\* the response also carries the time it was produced
JobCardDetailStamped(d, job_id) ==
    [id |-> job_id, status |-> d.job_cards[job_id].status, retrieved_at |-> now]

\* get_job_card's job_data: JobCard.to_dict, the related asset and workshop,
\* the job's labor entries and parts used
JobCardDetail(d, job_id) ==
    LET job == d.job_cards[job_id]
        labor == RowsOf(d, d.labor_entries, job_id)
        used == RowsOf(d, d.parts_used, job_id)
    IN  [id |-> job_id,
         job_number |-> job.job_number,
         asset_id |-> job.asset_id,
         workshop_id |-> job.workshop_id,
         status |-> job.status,
         actual_start |-> job.actual_start,
         actual_end |-> job.actual_end,
         completed_at |-> job.completed_at,
         actual_cost |-> ToJsonNumber(job.actual_cost),
         labor_cost |-> ToJsonNumber(job.labor_cost),
         parts_cost |-> ToJsonNumber(job.parts_cost),
         asset |-> d.assets[job.asset_id],
         workshop |-> d.workshops[job.workshop_id],
         labor_entries |-> [k \in DOMAIN labor |-> LaborToDict(d, labor[k])],
         parts_used |-> [k \in DOMAIN used |-> PartsUsedToDict(d, used[k])]]

get_job_card ==
    \E user \in {4}, job_id \in Ids(job_cards) :
        IF ~Exists(job_cards, job_id)
        THEN Read("get_job_card", user, job_id, 404, "Job card not found", <<>>)
        ELSE Read("get_job_card", user, job_id, 200, "", JobCardDetail(DB, job_id))

\* the job cards with their labor and parts, and the reading of them
NextJobView ==
    \/ create_asset
    \/ create_part
    \/ create_job_card_admin
    \/ add_labor_entry
    \/ add_parts_used
    \/ get_job_card
    \/ tick

SpecJobView == Init /\ [][NextJobView]_vars

CountJobs(d, workshop_id, statuses) ==
    Cardinality({j \in DOMAIN d.job_cards :
                    d.job_cards[j].workshop_id = workshop_id
                    /\ d.job_cards[j].status \in statuses})

\* round((active_jobs / capacity) * 100, 1) if capacity > 0 else 0
Utilization(active_jobs, capacity) ==
    IF capacity > 0 THEN (2000 * active_jobs + capacity) \div (2 * capacity) ELSE 0

\* the statuses get_workshops counts as active
ListActiveStatuses == {"pending", "assigned", "in_progress"}

\* the statuses get_dashboard_stats counts as active
DashboardActiveStatuses == {"pending", "in_progress"}

\* get_workshops: workshop_data of one workshop
WorkshopListEntry(d, w) ==
    LET active_jobs == CountJobs(d, w, ListActiveStatuses)
    IN  [id |-> w, name |-> d.workshops[w].name, capacity |-> d.workshops[w].capacity,
         active_jobs |-> active_jobs,
         utilization |-> Utilization(active_jobs, d.workshops[w].capacity)]

\* get_dashboard_stats: one element of workshop_stats
WorkshopStatsEntry(d, w) ==
    LET active_jobs == CountJobs(d, w, DashboardActiveStatuses)
    IN  [id |-> w, name |-> d.workshops[w].name, capacity |-> d.workshops[w].capacity,
         active_jobs |-> active_jobs,
         utilization |-> Utilization(active_jobs, d.workshops[w].capacity)]

get_workshops ==
    \E user \in {1} :
        Read("get_workshops", user, 0, 200, "",
             [w \in DOMAIN workshops |-> WorkshopListEntry(DB, w)])

get_dashboard_stats ==
    \E user \in {1} :
        Read("get_dashboard_stats", user, 0, 200, "",
             [workshops |-> [w \in DOMAIN workshops |-> WorkshopStatsEntry(DB, w)]])

\* the JSON bodies sent to update_job_card when a job is handed to a
\* technician and when it is finished
AssignPayloads ==
    {[status |-> st, labor_cost |-> Absent, parts_cost |-> Absent, actual_cost |-> Absent] :
        st \in {"assigned", "completed"}}

update_job_card_assign ==
    \E user \in {1}, job_id \in DOMAIN job_cards, data \in AssignPayloads :
        Handle("update_job_card", user, job_id, data,
               UpdateJobCardPlan(DB, user, job_id, data))

\* a job card opened in any of the workshops
create_job_card_workshop ==
    \E user \in {1}, workshop_id \in {1, 3, 4} :
        LET data == [asset_id |-> PyInt(1), workshop_id |-> PyInt(workshop_id)]
        IN  Handle("create_job_card", user, 0, data, CreateJobCardPlan(DB, user, data))

\* the workload of the workshops and the two reports of it
NextUtilization ==
    \/ create_asset
    \/ create_workshop
    \/ create_job_card_workshop
    \/ update_job_card_assign
    \/ get_workshops
    \/ get_dashboard_stats

SpecUtilization == Init /\ [][NextUtilization]_vars

\* C24: every workshop's utilization is active_jobs / capacity x 100 (to the
\* nearest tenth; 0 when the capacity is 0) in both reports, and a dashboard
\* read directly after a workshop list gives every workshop the active_jobs
\* and utilization the list gave it.
C24_UtilizationAgrees ==
    [][/\ (last'.op = "get_workshops" /\ last' # last) =>
              \A w \in DOMAIN last'.body :
                  LET e == last'.body[w]
                  IN  IF e.capacity = 0 THEN e.utilization = 0
                      ELSE /\ 2 * (e.utilization * e.capacity - 1000 * e.active_jobs) <= e.capacity
                           /\ 2 * (1000 * e.active_jobs - e.utilization * e.capacity) <= e.capacity
       /\ (last.op = "get_workshops" /\ last'.op = "get_dashboard_stats") =>
              \A w \in DOMAIN last.body :
                  /\ last'.body.workshops[w].active_jobs = last.body[w].active_jobs
                  /\ last'.body.workshops[w].utilization = last.body[w].utilization
    ]_vars

(***************************************************************************)
(* Requests side by side.  Each worker has its own session and             *)
(* transaction (READ COMMITTED): a row it has loaded keeps the values it    *)
(* was loaded with, a query sees what is committed when it runs, plus the   *)
(* session's own flushed rows, and nothing it writes is seen by the others  *)
(* before its commit.  A handler is cut where it talks to the database:     *)
(* its first reads; the autoflush and SUM query; its commit.  An UPDATE     *)
(* waits for the row lock of another session's flushed UPDATE.              *)
(***************************************************************************)
\* a request in flight on a worker: what it asked, the rows its session has
\* read (as the tables they were read from), where its handler is, and the
\* job number it generated
Session(op, user, id, data, seen, pc, job_number) ==
    [op |-> op, user |-> user, id |-> id, data |-> data, seen |-> seen, pc |-> pc,
     job_number |-> job_number]

\* the model's bounds on the tables where requests race
FitsRace(d) ==
    /\ Len(d.labor_entries) <= MaxRace
    /\ Len(d.parts_used) <= MaxRace
    /\ Len(d.job_cards) <= MaxJobs
    /\ Len(d.audit_logs) <= MaxAudit

\* a handler's reads are done and it goes on: nothing is written yet
Hold(w, s) ==
    /\ sessions' = [sessions EXCEPT ![w] = s]
    /\ UNCHANGED <<assets, workshops, job_cards, labor_entries, parts_used, parts,
                   audit_logs, maintenance_schedules, last, now>>
    /\ Serving

\* the request of worker w ends: r.db is durable and the response is sent
Finish(w, r) ==
    /\ FitsRace(r.db)
    /\ Store(r.db)
    /\ last' = [op |-> sessions[w].op, user |-> sessions[w].user, id |-> sessions[w].id,
                code |-> r.code, error |-> r.error, data |-> sessions[w].data, body |-> <<>>]
    /\ now' = now
    /\ sessions' = [sessions EXCEPT ![w] = NoSession]
    /\ Serving

\* the request of worker w ends in an unhandled exception: rollback, 500
Abort(w) == Finish(w, [db |-> DB, code |-> 500, error |-> "Internal server error"])

\* a handler answers from its first reads, or goes on as session s
Enter(w, op, user, id, data, p, s) ==
    /\ sessions[w] = NoSession
    /\ IF p.steps = <<>> /\ ~p.raised
       THEN ReadQuery(op, user, id, data, p.code, p.error, <<>>)
       ELSE Hold(w, s)

\* the last state of a plan that runs to its end
Final(p) == p.steps[Len(p.steps)].db

(* create_job_card: generate_job_number reads the last id (line 215); the   *)
(* INSERT and the commit come at line 233.                                   *)
begin_create_job_card(w) ==
    \E user \in Requesters, workshop_id \in {1, 4} :
        LET data == [asset_id |-> PyInt(1), workshop_id |-> PyInt(workshop_id)]
        IN  Enter(w, "create_job_card", user, 0, data, CreateJobCardPlan(DB, user, data),
                  Session("create_job_card", user, 0, data, DB, "read", generate_job_number(DB)))

commit_create_job_card(w) ==
    /\ sessions[w].op = "create_job_card"
    /\ LET s == sessions[w]
           p == CreateJobCardAs(DB, s.user, s.data, s.job_number)
       IN  Finish(w, Run(DB, p, Len(p.steps)))

(* add_parts_used: the job and the part are read at lines 346 and 355; the  *)
(* SUM query of line 378 flushes the INSERT and the UPDATE of the part; the  *)
(* commit is line 384.                                                       *)
\* the quantities the racing requests ask for
RaceQuantities == {1, 2}

\* what the session of a request in flight sees: the rows it loaded, as it
\* loaded them, and the rows its query returned
SessionView(s, loaded_part) ==
    [DB EXCEPT !.job_cards[s.id] = s.seen.job_cards[s.id],
               !.parts = IF loaded_part = 0 THEN @
                         ELSE [@ EXCEPT ![loaded_part] = s.seen.parts[loaded_part]],
               !.labor_entries = s.seen.labor_entries,
               !.parts_used = s.seen.parts_used]

\* the UPDATE decrements in the database: SET quantity_in_stock = quantity_in_stock - q
PartsUsedWritesAtomic(cur, final, job_id, part_id) ==
    [cur EXCEPT !.parts_used = Append(@, final.parts_used[Len(final.parts_used)]),
                !.parts[part_id].quantity_in_stock =
                    @ - final.parts_used[Len(final.parts_used)].quantity,
                !.job_cards[job_id].parts_cost = final.job_cards[job_id].parts_cost,
                !.job_cards[job_id].actual_cost = final.job_cards[job_id].actual_cost]

\* what add_parts_used's flush writes to the tables cur: the new row, the
\* part's quantity_in_stock and the job's two costs, as the session computed them
PartsUsedWrites(cur, final, job_id, part_id) ==
    [cur EXCEPT !.parts_used = Append(@, final.parts_used[Len(final.parts_used)]),
                !.parts[part_id].quantity_in_stock = final.parts[part_id].quantity_in_stock,
                !.job_cards[job_id].parts_cost = final.job_cards[job_id].parts_cost,
                !.job_cards[job_id].actual_cost = final.job_cards[job_id].actual_cost]

begin_add_parts_used(w) ==
    \E user \in {1}, job_id \in DOMAIN job_cards, part_id \in DOMAIN parts,
       quantity \in RaceQuantities :
        LET data == [part_id |-> PyInt(part_id), quantity |-> PyInt(quantity)]
        IN  Enter(w, "add_parts_used", user, job_id, data,
                  AddPartsUsedPlan(DB, user, job_id, data),
                  Session("add_parts_used", user, job_id, data, DB, "read", 0))

\* another session has flushed an UPDATE of the part and not committed
PartLocked(w, part_id) ==
    \E o \in Workers \ {w} :
        /\ sessions[o].op = "add_parts_used"
        /\ sessions[o].pc = "flushed"
        /\ sessions[o].data.part_id.v = part_id

query_add_parts_used(w) ==
    /\ sessions[w].op = "add_parts_used"
    /\ sessions[w].pc = "read"
    /\ ~PartLocked(w, sessions[w].data.part_id.v)
    /\ LET s == [sessions[w] EXCEPT !.seen.parts_used = parts_used, !.pc = "flushed"]
           p == AddPartsUsedPlan(SessionView(s, s.data.part_id.v), s.user, s.id, s.data)
       IN  IF p.raised THEN Abort(w) ELSE Hold(w, s)

commit_add_parts_used(w) ==
    /\ sessions[w].op = "add_parts_used"
    /\ sessions[w].pc = "flushed"
    /\ LET s == sessions[w]
           p == AddPartsUsedPlan(SessionView(s, s.data.part_id.v), s.user, s.id, s.data)
       IN  Finish(w, [db |-> PartsUsedWrites(DB, Final(p), s.id, s.data.part_id.v),
                      code |-> p.code, error |-> p.error])

(* add_labor_entry: the job is read at line 308; the SUM query of line 330  *)
(* flushes the INSERT; the UPDATE of the job and the commit are line 336.    *)
\* what add_labor_entry's flush writes to the tables cur: the new row and the
\* job's two costs, as the session computed them
LaborWrites(cur, final, job_id) ==
    [cur EXCEPT !.labor_entries = Append(@, final.labor_entries[Len(final.labor_entries)]),
                !.job_cards[job_id].labor_cost = final.job_cards[job_id].labor_cost,
                !.job_cards[job_id].actual_cost = final.job_cards[job_id].actual_cost]

begin_add_labor_entry(w) ==
    \E user \in {1}, job_id \in DOMAIN job_cards, data \in LaborPayloads :
        Enter(w, "add_labor_entry", user, job_id, data,
              AddLaborEntryPlan(DB, user, job_id, data),
              Session("add_labor_entry", user, job_id, data, DB, "read", 0))

query_add_labor_entry(w) ==
    /\ sessions[w].op = "add_labor_entry"
    /\ sessions[w].pc = "read"
    /\ LET s == [sessions[w] EXCEPT !.seen.labor_entries = labor_entries, !.pc = "flushed"]
           p == AddLaborEntryPlan(SessionView(s, 0), s.user, s.id, s.data)
       IN  IF p.raised THEN Abort(w) ELSE Hold(w, s)

commit_add_labor_entry(w) ==
    /\ sessions[w].op = "add_labor_entry"
    /\ sessions[w].pc = "flushed"
    /\ LET s == sessions[w]
           p == AddLaborEntryPlan(SessionView(s, 0), s.user, s.id, s.data)
       IN  Finish(w, [db |-> Persist(LaborWrites(DB, Final(p), s.id)),
                      code |-> p.code, error |-> p.error])

\* two workers adding used parts to the job cards
NextStockRace ==
    \/ create_asset
    \/ create_part
    \/ create_job_card_admin
    \/ \E w \in Workers : begin_add_parts_used(w)
    \/ \E w \in Workers : query_add_parts_used(w)
    \/ \E w \in Workers : commit_add_parts_used(w)

SpecStockRace == Init /\ [][NextStockRace]_vars

\* two workers adding labor entries to the job cards
NextLaborRace ==
    \/ create_asset
    \/ create_job_card_admin
    \/ \E w \in Workers : begin_add_labor_entry(w)
    \/ \E w \in Workers : query_add_labor_entry(w)
    \/ \E w \in Workers : commit_add_labor_entry(w)

SpecLaborRace == Init /\ [][NextLaborRace]_vars

\* two workers opening job cards
NextNumbers ==
    \/ create_asset
    \/ \E w \in Workers : begin_create_job_card(w)
    \/ \E w \in Workers : commit_create_job_card(w)

SpecNumbers == Init /\ [][NextNumbers]_vars

\* worker w's request op commits in this step
Commits(w, op) ==
    /\ sessions[w].op = op
    /\ sessions[w].pc = "flushed"
    /\ sessions'[w] = NoSession
    /\ last'.code = 201

\* C25: when an add_parts_used commits after another request has changed the
\* stock it read (both read the stock before either committed), its write
\* overwrites the other's: the stock becomes what this request read minus its
\* own quantity, which is more than the stock it found minus its quantity, so
\* the rows created record more units than were taken from stock.
C25_StockLostUpdate ==
    [][\A w \in Workers :
        LET s == sessions[w]
            part_id == s.data.part_id.v
        IN  (/\ Commits(w, "add_parts_used")
             /\ parts[part_id].quantity_in_stock # s.seen.parts[part_id].quantity_in_stock)
            => /\ Len(parts_used') = Len(parts_used) + 1
               /\ parts_used'[Len(parts_used')].quantity = s.data.quantity.v
               /\ parts'[part_id].quantity_in_stock =
                      s.seen.parts[part_id].quantity_in_stock - s.data.quantity.v
               /\ parts'[part_id].quantity_in_stock >
                      parts[part_id].quantity_in_stock - s.data.quantity.v
    ]_vars

\* C25 witness: part 1 was created with 2 in stock; two requests that each
\* took 2 are both stored, 4 units recorded as used, and the stock is 0.
C25_Witness ==
    /\ last.op = "add_parts_used" /\ last.code = 201
    /\ Len(parts_used) = 2
    /\ \A i \in DOMAIN parts_used : parts_used[i].part_id = 1 /\ parts_used[i].quantity = 2
    /\ parts[1].quantity_in_stock = 0

\* C26: when an add_labor_entry commits after another entry of the same job
\* was committed behind its sum (each computed its sum before the other
\* committed), both rows are stored and the job's labor_cost is less than
\* the sum of the total_cost of the job's rows.
C26_LaborLostUpdate ==
    [][\A w \in Workers :
        LET s == sessions[w]
        IN  (/\ sessions[w].op = "add_labor_entry"
             /\ sessions[w].pc = "flushed"
             /\ sessions'[w] = NoSession
             /\ \E i \in DOMAIN labor_entries :
                   /\ i > Len(s.seen.labor_entries)
                   /\ labor_entries[i].job_card_id = s.id)
            => /\ last'.code = 201
               /\ Len(labor_entries') = Len(labor_entries) + 1
               /\ Amount(job_cards'[s.id].labor_cost) < SumRows(labor_entries', s.id)
    ]_vars

\* the workers whose create_job_card is in flight
Creating == {w \in Workers : sessions[w].op = "create_job_card"}

C28_JobNumbersDistinct ==
    [][/\ \A i, j \in DOMAIN job_cards' :
              i # j => job_cards'[i].job_number # job_cards'[j].job_number
       /\ (Len(job_cards') > Len(job_cards) /\ Cardinality(Creating) <= 1)
              => \A j \in DOMAIN job_cards :
                     job_cards'[Len(job_cards')].job_number > job_cards[j].job_number
    ]_vars

\* C28 witness: two job cards are stored, and the last request, which held a
\* number already stored when it came to commit, was refused.
C28_Witness ==
    /\ Len(job_cards) = 2
    /\ job_cards[1].job_number # job_cards[2].job_number
    /\ last.op = "create_job_card" /\ last.code = 500
    /\ last.data.workshop_id.v = 1

\* C29: an add_parts_used that is accepted, whatever quantity it carries (a
\* negative one included), leaves the part's quantity_in_stock no higher than
\* it was and the job's parts_cost no lower than it was.
C29_OnlyConsumes ==
    [][(last'.op = "add_parts_used" /\ last'.code = 201) =>
        LET part_id == last'.data.part_id.v
        IN  /\ parts'[part_id].quantity_in_stock <= parts[part_id].quantity_in_stock
            /\ Amount(job_cards'[last'.id].parts_cost) >= Amount(job_cards[last'.id].parts_cost)
    ]_vars

(***************************************************************************)
(* init_db.py: ensure_database_initialized(force=False), called by the      *)
(* threads of one process.  A caller is idle, waits for _db_init_lock, runs *)
(* the seeding body under it ("workshops", then "users"), or has returned   *)
(* ("true", "false").                                                        *)
(***************************************************************************)
\* a database whose tables were just created, in a process that has not
\* initialized it
InitEmpty ==
    /\ EmptyTables
    /\ users = <<>>
    /\ workshops = <<>>
    /\ db_initialized = FALSE

\* the body's steps
InBody == {"workshops", "users"}

\* the workshops are added whatever the table holds
SeedWorkshopsAlways(rows) == rows \o default_workshops

\* if existing_workshops == 0: add the three default workshops, commit
SeedWorkshops(rows) == IF Len(rows) = 0 THEN default_workshops ELSE rows

\* if existing_users == 0: add the four default users, commit (the workshops
\* are there by then: the step before this one has seen to it)
SeedUsers(rows) == IF Len(rows) = 0 THEN default_users ELSE rows

\* what a step of the seeding leaves alone
Seeding ==
    UNCHANGED <<assets, job_cards, labor_entries, parts_used, parts, audit_logs,
                maintenance_schedules, last, now, sessions>>

\* line 248: the flag is read without the lock
call_ensure(t) ==
    /\ callers[t] \notin InBody \cup {"waiting"}
    /\ callers' = [callers EXCEPT ![t] = IF db_initialized THEN "true" ELSE "waiting"]
    /\ UNCHANGED <<users, workshops, db_initialized, db_init_lock>>
    /\ Seeding

\* lines 251-253: the lock is taken and the flag read again
acquire(t) ==
    /\ callers[t] = "waiting"
    /\ db_init_lock = 0
    /\ IF db_initialized
       THEN /\ callers' = [callers EXCEPT ![t] = "true"]
            /\ db_init_lock' = 0
       ELSE /\ callers' = [callers EXCEPT ![t] = "workshops"]
            /\ db_init_lock' = t
    /\ UNCHANGED <<users, workshops, db_initialized>>
    /\ Seeding

\* lines 297-334
seed_workshops(t) ==
    /\ callers[t] = "workshops"
    /\ workshops' = SeedWorkshops(workshops)
    /\ callers' = [callers EXCEPT ![t] = "users"]
    /\ UNCHANGED <<users, db_initialized, db_init_lock>>
    /\ Seeding

\* lines 338-394, then lines 256-257: the flag is set, the lock released
seed_users(t) ==
    /\ callers[t] = "users"
    /\ users' = SeedUsers(users)
    /\ db_initialized' = TRUE
    /\ db_init_lock' = 0
    /\ callers' = [callers EXCEPT ![t] = "true"]
    /\ UNCHANGED workshops
    /\ Seeding

\* lines 258-263: the body raised (the database was not reachable); what it
\* had committed stays, the flag is not set
fail_ensure(t) ==
    /\ callers[t] \in InBody
    /\ db_init_lock' = 0
    /\ callers' = [callers EXCEPT ![t] = "false"]
    /\ UNCHANGED <<users, workshops, db_initialized>>
    /\ Seeding

\* the process is started anew: the flag and the lock are the module's
\* initial ones, the database is as it was left
restart ==
    /\ db_initialized' = FALSE
    /\ db_init_lock' = 0
    /\ callers' = [t \in Threads |-> "idle"]
    /\ UNCHANGED <<users, workshops>>
    /\ Seeding

NextSeed ==
    \/ \E t \in Threads : call_ensure(t)
    \/ \E t \in Threads : acquire(t)
    \/ \E t \in Threads : seed_workshops(t)
    \/ \E t \in Threads : seed_users(t)
    \/ \E t \in Threads : fail_ensure(t)
    \/ restart

SpecSeed == InitEmpty /\ [][NextSeed]_vars

\* C30: from an empty database, whatever calls of
\* ensure_database_initialized(force=False) the threads of a process make:
\* the body completes at most once in the process (once the flag is set it
\* stays set and no caller is in the body); when a call has returned True
\* there are exactly the 3 default workshops and the 4 default users; and a
\* run on a seeded table adds no row to it.
C30_SeedingIdempotent ==
    [][/\ (db_initialized /\ db_initialized')
              => (\A t \in Threads : callers'[t] \notin InBody)
       /\ db_initialized' => (workshops' = default_workshops /\ users' = default_users)
       /\ (\E t \in Threads : callers'[t] = "true")
              => (Len(workshops') = 3 /\ Len(users') = 4)
       /\ workshops # <<>> => workshops' = workshops
       /\ users # <<>> => users' = users
       /\ Cardinality({t \in Threads : callers'[t] \in InBody}) <= 1
    ]_vars

\* C30 witness: every thread's call has returned True, one after running the
\* body and the others on the flag, and the rows are the seeded ones.
C30_Witness ==
    /\ db_initialized
    /\ \A t \in Threads : callers[t] = "true"
    /\ workshops = default_workshops
    /\ users = default_users

====
